---------------------------- MODULE Spec2Model ----------------------------
(***************************************************************************)
(* Survey-Rudraram backend: the fetch/cache orchestrator and the           *)
(* reconciliation (sync) engine, modelled from                             *)
(*   backend-python/dashboard_app/services/sync_service.py                 *)
(*   backend-python/dashboard_app/api/v1/sync.py                           *)
(*   backend-python/dashboard_app/services/excel_service.py                *)
(*   backend-python/dashboard_app/cache/redis_client.py                    *)
(*   backend-python/app/services/excel_service.py                          *)
(*   backend-python/app.py                                                 *)
(*                                                                         *)
(* Three specifications share the variables:                               *)
(*   SpecSync   sync_excel_to_supabase and perform_sync runs on the        *)
(*              devices table (two overlapping tasks)                      *)
(*   SpecCache  get_survey_data on the Redis cache (two workers)           *)
(*   SpecApp    the handlers of app.py on its in-memory cache              *)
(***************************************************************************)
EXTENDS Integers, Sequences, FiniteSets, TLC

(***************************************************************************)
(* Bounds of the model.                                                    *)
(***************************************************************************)
\* rows of a device sheet in SpecSync
MaxRows == 2
\* rows of a sheet in SpecCache / SpecApp
MaxCachedRows == 1
\* get_survey_data calls started in one behaviour of SpecCache
MaxCalls == 3
\* edits of the spreadsheet by the third party
MaxEdits == 1
\* failures of the network and of the store in one sync behaviour
MaxFaults == 1
\* remote fetches counted by fetch_count
MaxFetches == 3
\* clock of app.py (datetime.now()), in ticks
MaxClock == 3
\* chunk_size of sync_service.py:105 is 100; scaled down so that a source of
\* MaxDevices rows spans full chunks and a short last chunk
ChunkSize == 2
\* rows of the device sheet in SpecChunks
MaxDevices == 3
\* CACHE_DURATION_SECONDS of app.py:46 is 60 seconds; scaled to ticks
CacheDurationTicks == 2
\* rows of a sheet handed to normalize_survey_data
MaxSheetRows == 2
\* rows of a batch handed to validate_batch
MaxBatch == 3
\* rows of a table of the database read by GET /api/db/devices
MaxTableRows == 2
\* the limit parameter of GET /api/db/devices
MaxLimit == 2

(***************************************************************************)
(* Values.                                                                 *)
(***************************************************************************)
\* survey_id values; NoId is an empty "Survey Code (ID)" cell
NoId == ""
Ids == {"BW-01", "BW-02"}
Statuses == {"Working", "Failed"}
\* sheet names of the workbook and the sheet names a caller may ask for
SheetNames == {"All", "Borewell"}
RequestedSheets == {"All", "Borewell", "Sump"}
SHEET_NAME == "All"
\* the sync runs of one behaviour, one per task
Tasks == {1, 2}
Workers == {1, 2}

\* a raw row of a sheet: the cells the sync engine keys and overwrites
Rows == [survey_id : Ids \cup {NoId}, status : Statuses]

\* sequences over S of length 0..n
RECURSIVE SeqsUpTo(_, _)
SeqsUpTo(S, n) ==
    IF n = 0 THEN {<<>>}
    ELSE LET shorter == SeqsUpTo(S, n - 1)
         IN  shorter \cup {Append(s, x) : s \in {q \in shorter : Len(q) = n - 1}, x \in S}

Min(a, b) == IF a < b THEN a ELSE b

VARIABLES
    excel,         \* the remote workbook: sheet name -> sequence of raw rows
    edits,         \* number of edits the third party has made
    devices,       \* table "devices" of the store: sequence of rows
    sync_history,  \* table "sync_history" of the store
    audit_logs,    \* table "audit_logs" of the store
    run,           \* per task: position and locals of its sync run
    started,       \* number of sync runs started
    faults,        \* number of requests of sync runs that have failed
    hist,          \* completed sync runs, in completion order
    redis,         \* the Redis cache: key -> value
    call,          \* per worker: position and locals of its get_survey_data call
    calls,         \* number of get_survey_data calls started
    cache,         \* the in-memory cache dict of app.py
    now,           \* datetime.now() of app.py, in ticks
    last,          \* the last handler call of app.py and what it did
    arg,           \* the input handed to the normalization pipeline
    returned       \* what the pipeline returned for it

vars == <<excel, edits, devices, sync_history, audit_logs, run, started, faults, hist,
          redis, call, calls, cache, now, last, arg, returned>>

storeVars == <<devices, sync_history, audit_logs>>
syncVars  == <<run, started, faults, hist>>
redisVars == <<redis, call, calls>>
appVars   == <<cache, now, last>>
normVars  == <<arg, returned>>

(***************************************************************************)
(* Normalization as the sync engine sees it.                               *)
(***************************************************************************)
\* ExcelValidator.validate_row, the rule the rows of this model can break:
\* a required field that is empty is an error
validate_row(row) ==
    IF row.survey_id = NoId THEN <<"Missing required field: survey_id">> ELSE <<>>

\* one normalized row: the cells and row_index = idx + 2
NormalizeRow(df, i) ==
    [survey_id |-> df[i].survey_id, status |-> df[i].status, row_index |-> i + 1]

\* normalize_survey_data: normalize every row, then validate_batch partitions
normalize_survey_data(df) ==
    LET normalized_rows == [i \in 1..Len(df) |-> NormalizeRow(df, i)]
        IsValid(r)      == validate_row(r) = <<>>
        IsInvalid(r)    == validate_row(r) # <<>>
    IN  [valid_devices   |-> SelectSeq(normalized_rows, IsValid),
         invalid_devices |-> SelectSeq(normalized_rows, IsInvalid),
         total           |-> Len(df)]

(***************************************************************************)
(* The store (Supabase): table "devices".                                  *)
(***************************************************************************)
RowsWith(tbl, code) == {k \in DOMAIN tbl : tbl[k].survey_id = code}
StoredIds(tbl) == {tbl[k].survey_id : k \in DOMAIN tbl}

\* an upsert that inserts without looking for the key
UpsertOne_AlwaysInsert(tbl, rec) == Append(tbl, rec)

\* .upsert(record, on_conflict="survey_id") of one record
UpsertOne(tbl, rec) ==
    IF RowsWith(tbl, rec.survey_id) # {}
      THEN [k \in DOMAIN tbl |-> IF tbl[k].survey_id = rec.survey_id THEN rec ELSE tbl[k]]
      ELSE Append(tbl, rec)

\* an upsert request that is answered without storing its records
Upsert_Nothing(tbl, chunk) == tbl

\* .upsert(chunk, on_conflict="survey_id").execute()
RECURSIVE Upsert(_, _)
Upsert(tbl, chunk) ==
    IF chunk = <<>> THEN tbl
    ELSE Upsert(UpsertOne(tbl, Head(chunk)), Tail(chunk))

\* .update(payload).eq('survey_code', code).execute()
Update(tbl, code, payload) ==
    [k \in DOMAIN tbl |-> IF tbl[k].survey_id = code THEN payload ELSE tbl[k]]

\* a table without the unique key
InsertRejected_Never(tbl, payload) == FALSE

\* .insert(payload).execute(): the unique key rejects a second row
InsertRejected(tbl, payload) == RowsWith(tbl, payload.survey_id) # {}
Insert(tbl, payload) == Append(tbl, payload)


(***************************************************************************)
(* The Redis cache (RedisClient) and the fetch of the workbook.            *)
(***************************************************************************)
Nil == [k |-> "nil"]
cache_key(sheet_name) == "sheet:" \o sheet_name
RedisKeys == {cache_key(s) : s \in RequestedSheets} \cup {"available_sheets", "fetch_count"}

\* RedisClient.get: json.loads(data) if data else None
redis_get(r, key) == r[key]
\* RedisClient.set: client.set(key, json.dumps(value), ex=expire)
redis_set(r, key, value) == [r EXCEPT ![key] = value]

\* truth value Python gives a value: None, an empty list, 0, 0.0, "" and
\* False are false, a response dict (it always has keys) is true
Truthy(v) ==
    CASE v.k = "nil"   -> FALSE
      [] v.k = "list"  -> Len(v.devices) > 0
      [] v.k = "int"   -> v.n # 0
      [] v.k = "float" -> v.n # 0
      [] v.k = "str"   -> v.s # ""
      [] v.k = "bool"  -> v.b
      [] OTHER         -> TRUE

\* redis_client.get("fetch_count") or 0
get_total_fetches(r) ==
    IF Truthy(redis_get(r, "fetch_count")) THEN redis_get(r, "fetch_count").n ELSE 0

\* outcomes of requests.get + pd.ExcelFile
Net == {"ok", "timeout", "corrupt"}

\* fetch_excel_from_github of dashboard_app (and of app/services, same code):
\* the cache after the call, the keys it set, the error raised ("" when none)
\* and the sheet
fetch_excel_from_github(r, sheet_name, net) ==
    IF net = "timeout"
      THEN [redis |-> r, wrote |-> {}, err |-> "RemoteFetchError", df |-> <<>>]
    ELSE IF net = "corrupt"
      THEN [redis |-> r, wrote |-> {}, err |-> "ParseError", df |-> <<>>]
    ELSE LET r1 == redis_set(r, "available_sheets", [k |-> "names", names |-> DOMAIN excel])
         IN  IF sheet_name \notin DOMAIN excel
               THEN [redis |-> r1, wrote |-> {"available_sheets"},
                     err |-> "SheetNotFoundError", df |-> <<>>]
               ELSE [redis |-> redis_set(r1, "fetch_count",
                                         [k |-> "int", n |-> get_total_fetches(r1) + 1]),
                     wrote |-> {"available_sheets", "fetch_count"},
                     err   |-> "",
                     df    |-> excel[sheet_name]]

\* get_survey_data of dashboard_app after the fetch: normalize, build the
\* response, cache it.  For an empty sheet normalize_survey_data returns early
\* with no "header_validation" key and building the response raises KeyError.
StoreResponse(r, sheet_name, df) ==
    IF Len(df) = 0
      THEN [redis |-> r, err |-> "KeyError", out |-> Nil]
      ELSE LET result   == normalize_survey_data(df)
               response == [k               |-> "dict",
                            devices         |-> result.valid_devices,
                            invalid_devices |-> result.invalid_devices,
                            total_rows      |-> result.total]
           IN  [redis |-> redis_set(r, cache_key(sheet_name), response),
                err   |-> "",
                out   |-> response]

\* get_survey_data of app/services after the fetch: the list of all rows
\* (empty for an empty sheet) is cached
StoreList(r, sheet_name, df) ==
    LET devices_ == [k |-> "list", devices |-> df]
    IN  [redis |-> redis_set(r, cache_key(sheet_name), devices_),
         err   |-> "",
         out   |-> devices_]

\* get_survey_data of dashboard_app as one call
get_survey_data(r, sheet_name, net) ==
    LET cached_data == redis_get(r, cache_key(sheet_name))
    IN  IF Truthy(cached_data)
          THEN [redis |-> r, err |-> "", out |-> cached_data]
          ELSE LET f == fetch_excel_from_github(r, sheet_name, net)
               IN  IF f.err # ""
                     THEN [redis |-> f.redis, err |-> f.err, out |-> Nil]
                     ELSE StoreResponse(f.redis, sheet_name, f.df)

\* the TTL of a key runs out
Expire(key) ==
    /\ redis[key] # Nil
    /\ redis' = [redis EXCEPT ![key] = Nil]

(***************************************************************************)
(* The sync engine: SyncService.sync_excel_to_supabase and perform_sync.   *)
(***************************************************************************)
\* sheets sync_excel_to_supabase picks: the names containing one of
\* "bore", "sump", "ohsr", "oht", "overhead"
IsDeviceSheet(name) == name \in {"Borewell", "Sump"}

NoResult == [status |-> "none"]
NoStats  == [inserted |-> 0, updated |-> 0, errors |-> 0]

IdleRun == [pc |-> "idle", kind |-> "none", all_devices |-> <<>>, i |-> 0,
            total_upserted |-> 0, existing_codes |-> {}, stats |-> NoStats,
            issued |-> 0, accepted |-> 0, solo |-> TRUE, before |-> <<>>, sent |-> <<>>]

Running(t) == run[t].pc \notin {"idle", "done"}

\* clean_record / payload: the device without row_index
clean_record(device) == [survey_id |-> device.survey_id, status |-> device.status]

\* a request to the network or to the store fails (failed) or not
Fault(failed) ==
    IF failed THEN faults < MaxFaults /\ faults' = faults + 1
              ELSE UNCHANGED faults

\* a run ends: what it returned or raised is recorded
Finish(t, result, exc, r, after) ==
    /\ hist' = Append(hist, [kind |-> r.kind, src |-> r.all_devices,
                             before |-> r.before, after |-> after,
                             result |-> result, exc |-> exc, stats |-> r.stats,
                             issued |-> r.issued, accepted |-> r.accepted,
                             solo |-> r.solo, sent |-> r.sent])
    /\ run' = [run EXCEPT ![t] = [IdleRun EXCEPT !.pc = "done"]]

\* a run is triggered (POST /sync/excel, or a call of sync_excel_to_supabase);
\* it takes the first task that has not run
StartRun(t) ==
    /\ run[t].pc = "idle"
    /\ \A u \in Tasks : u < t => run[u].pc # "idle"
    /\ \E kd \in {"service", "perform"} :
         run' = [u \in Tasks |->
                   IF u = t
                     THEN [IdleRun EXCEPT !.pc = IF kd = "service" THEN "s_fetch" ELSE "p_get",
                                          !.kind = kd,
                                          !.solo = \A v \in Tasks \ {t} : ~Running(v),
                                          !.before = devices]
                     ELSE IF Running(u) THEN [run[u] EXCEPT !.solo = FALSE] ELSE run[u]]
    /\ started' = started + 1
    /\ UNCHANGED <<excel, edits, storeVars, faults, hist, redis, call, calls, appVars, normVars>>

\* order of the sheets in the workbook (the order of all_dfs.keys())
SheetOrder == <<"All", "Borewell", "Sump">>

\* fetch_excel_data: every sheet of the workbook, by name
fetch_excel_data == excel

\* a collection that keeps the quarantined rows as well
RECURSIVE CollectDevices_KeepInvalid(_, _)
CollectDevices_KeepInvalid(all_dfs, k) ==
    IF k > Len(SheetOrder) THEN <<>>
    ELSE LET name == SheetOrder[k]
         IN  (IF name \in DOMAIN all_dfs /\ IsDeviceSheet(name)
                THEN normalize_survey_data(all_dfs[name]).valid_devices
                       \o normalize_survey_data(all_dfs[name]).invalid_devices
                ELSE <<>>) \o CollectDevices_KeepInvalid(all_dfs, k + 1)

\* lines 26-40 of sync_excel_to_supabase: the valid devices of every device
\* sheet, in workbook order
RECURSIVE CollectDevices(_, _)
CollectDevices(all_dfs, k) ==
    IF k > Len(SheetOrder) THEN <<>>
    ELSE LET name == SheetOrder[k]
         IN  (IF name \in DOMAIN all_dfs /\ IsDeviceSheet(name)
                THEN normalize_survey_data(all_dfs[name]).valid_devices
                ELSE <<>>) \o CollectDevices(all_dfs, k + 1)

\* lines 47-100: upsert_data
RECURSIVE UpsertData(_)
UpsertData(all_devices) ==
    IF all_devices = <<>> THEN <<>>
    ELSE <<clean_record(Head(all_devices))>> \o UpsertData(Tail(all_devices))

\* sync_excel_to_supabase, lines 21-43 and 118-120: fetch, normalize, and the
\* early return when there is no valid device; an exception is caught and
\* returned as status "error"
SyncFetch(t) ==
    /\ run[t].pc = "s_fetch"
    /\ \E net \in {"ok", "timeout"} :
         /\ Fault(net # "ok")
         /\ IF net # "ok"
              THEN Finish(t, [status |-> "error", message |-> "RemoteFetchError"],
                          "RemoteFetchError", run[t], devices)
              ELSE LET all_devices == CollectDevices(fetch_excel_data, 1)
                   IN  IF all_devices = <<>>
                         THEN Finish(t, [status |-> "warning", processed |-> 0],
                                     "", run[t], devices)
                         ELSE /\ run' = [run EXCEPT ![t].pc = "s_upsert",
                                                    ![t].all_devices = all_devices,
                                                    ![t].i = 0,
                                                    ![t].total_upserted = 0]
                              /\ UNCHANGED hist
    /\ UNCHANGED <<excel, edits, storeVars, started, redisVars, appVars, normVars>>

\* a slice that sends full chunks only: the short last chunk is left out
Chunk_FullOnly(upsert_data, i) ==
    IF i + ChunkSize <= Len(upsert_data)
      THEN SubSeq(upsert_data, i + 1, i + ChunkSize)
      ELSE <<>>

\* line 108: chunk = upsert_data[i:i + chunk_size]
Chunk(upsert_data, i) ==
    SubSeq(upsert_data, i + 1, Min(i + ChunkSize, Len(upsert_data)))

\* sync_excel_to_supabase, lines 102-120: one pass of the chunk loop, and the
\* return after the last chunk
SyncUpsertChunk(t) ==
    /\ run[t].pc = "s_upsert"
    /\ LET r           == run[t]
           upsert_data == UpsertData(r.all_devices)
           chunk       == Chunk(upsert_data, r.i)
       IN  \E ok \in BOOLEAN :
             /\ Fault(~ok)
             /\ IF ~ok
               THEN /\ Finish(t, [status |-> "error", message |-> "StoreError"], "StoreError",
                              [r EXCEPT !.issued = @ + 1, !.sent = Append(@, chunk)], devices)
                    /\ UNCHANGED devices
               ELSE LET after == Upsert(devices, chunk)
                        r1    == [r EXCEPT !.i = @ + ChunkSize,
                                           !.total_upserted = @ + Len(chunk),
                                           !.issued = @ + 1,
                                           !.accepted = @ + Len(chunk),
                                           !.sent = Append(@, chunk)]
                    IN  /\ devices' = after
                        /\ IF r1.i >= Len(upsert_data)
                             THEN Finish(t, [status |-> "success",
                                             processed |-> Len(r.all_devices),
                                             upserted |-> r1.total_upserted],
                                         "", r1, after)
                             ELSE /\ run' = [run EXCEPT ![t] = r1]
                                  /\ UNCHANGED hist
    /\ UNCHANGED <<excel, edits, sync_history, audit_logs, started, redisVars, appVars, normVars>>

\* perform_sync, lines 44-53 and 129-130: get_survey_data("All"); an
\* exception is logged and swallowed, an empty device list returns
PsGetSurveyData(t) ==
    /\ run[t].pc = "p_get"
    /\ \E net \in Net :
         LET g == get_survey_data(redis, SHEET_NAME, net)
         IN  /\ get_total_fetches(g.redis) <= MaxFetches
             /\ Fault(g.err \in {"RemoteFetchError", "ParseError"})
             /\ redis' = g.redis
             /\ IF g.err # ""
                  THEN Finish(t, NoResult, g.err, run[t], devices)
                  ELSE IF g.out.devices = <<>>
                         THEN Finish(t, NoResult, "", run[t], devices)
                         ELSE /\ run' = [run EXCEPT ![t].pc = "p_select",
                                                    ![t].all_devices = g.out.devices]
                              /\ UNCHANGED hist
    /\ UNCHANGED <<excel, edits, storeVars, started, call, calls, appVars, normVars>>

\* perform_sync, lines 66-70: the survey codes already in the table
PsSelectExisting(t) ==
    /\ run[t].pc = "p_select"
    /\ \E ok \in BOOLEAN :
         /\ Fault(~ok)
         /\ IF ~ok
              THEN Finish(t, NoResult, "StoreError", run[t], devices)
              ELSE /\ run' = [run EXCEPT ![t].pc = "p_loop",
                                         ![t].existing_codes = StoredIds(devices),
                                         ![t].i = 1,
                                         ![t].stats = NoStats]
                   /\ UNCHANGED hist
    /\ UNCHANGED <<excel, edits, storeVars, started, redisVars, appVars, normVars>>

\* perform_sync, lines 72-127: one pass of the device loop, and the end of
\* the run after the last device
PsDevice(t) ==
    /\ run[t].pc = "p_loop"
    /\ LET r       == run[t]
           device  == r.all_devices[r.i]
           payload == clean_record(device)
           code    == payload.survey_id
           Step(r1, after) ==
               /\ devices' = after
               /\ IF r1.i > Len(r.all_devices)
                    THEN Finish(t, NoResult, "", r1, after)
                    ELSE /\ run' = [run EXCEPT ![t] = r1]
                         /\ UNCHANGED hist
           Failed == [r EXCEPT !.i = @ + 1, !.issued = @ + 1, !.stats.errors = @ + 1]
       IN  IF code = NoId
             THEN Step([r EXCEPT !.i = @ + 1], devices) /\ Fault(FALSE)
             ELSE \E ok \in BOOLEAN :
                    /\ Fault(~ok)
                    /\ IF code \in r.existing_codes
                      THEN IF ok
                             THEN Step([r EXCEPT !.i = @ + 1, !.issued = @ + 1,
                                                 !.accepted = @ + 1,
                                                 !.stats.updated = @ + 1],
                                       Update(devices, code, payload))
                             ELSE Step(Failed, devices)
                      ELSE IF ok /\ ~InsertRejected(devices, payload)
                             THEN Step([r EXCEPT !.i = @ + 1, !.issued = @ + 1,
                                                 !.accepted = @ + 1,
                                                 !.stats.inserted = @ + 1],
                                       Insert(devices, payload))
                             ELSE Step(Failed, devices)
    /\ UNCHANGED <<excel, edits, sync_history, audit_logs, started, redisVars, appVars, normVars>>

\* the third party edits the spreadsheet: the Status cells change
SourceEdit ==
    /\ edits < MaxEdits
    /\ \E st \in Statuses :
         /\ \E s \in DOMAIN excel : \E k \in DOMAIN excel[s] : excel[s][k].status # st
         /\ excel' = [s \in DOMAIN excel |->
                        [k \in DOMAIN excel[s] |-> [excel[s][k] EXCEPT !.status = st]]]
    /\ edits' = edits + 1
    /\ UNCHANGED <<storeVars, syncVars, redisVars, appVars, normVars>>

\* the cached "All" sheet expires while sync runs come and go
ExpireDuringSync ==
    /\ Expire(cache_key(SHEET_NAME))
    /\ UNCHANGED <<excel, edits, storeVars, syncVars, call, calls, appVars, normVars>>

(***************************************************************************)
(* Initial states.                                                         *)
(***************************************************************************)
IdleCall == [pc |-> "idle", impl |-> "none", sheet |-> "none", df |-> <<>>,
             outcome |-> "none", wrote |-> {}, seen |-> Nil, fetched |-> FALSE]

InitStore == devices = <<>> /\ sync_history = <<>> /\ audit_logs = <<>>
InitRuns  == run = [t \in Tasks |-> IdleRun] /\ started = 0 /\ faults = 0 /\ hist = <<>>
InitRedis == redis = [key \in RedisKeys |-> Nil] /\ call = [w \in Workers |-> IdleCall] /\ calls = 0
InitApp   ==
    /\ cache = [sheets |-> [s \in {} |-> Nil], available_sheets |-> Nil,
                sheets_timestamp |-> Nil, fetch_count |-> 0]
    /\ now = 0
    /\ last = [op |-> "none"]

\* nothing has been handed to the normalization pipeline
InitNorm  == arg = [k |-> "none"] /\ returned = [op |-> "none"]

\* the workbook: one device sheet, and the "All" sheet listing the same rows
Init ==
    /\ \E ids \in SeqsUpTo(Ids \cup {NoId}, MaxRows) :
         LET rows == [k \in DOMAIN ids |-> [survey_id |-> ids[k], status |-> "Working"]]
         IN  excel = [s \in SheetNames |-> rows]
    /\ edits = 0
    /\ InitStore /\ InitRuns /\ InitRedis /\ InitApp /\ InitNorm

NextSync ==
    \/ \E t \in Tasks : StartRun(t)
    \/ \E t \in Tasks : SyncFetch(t)
    \/ \E t \in Tasks : SyncUpsertChunk(t)
    \/ \E t \in Tasks : PsGetSurveyData(t)
    \/ \E t \in Tasks : PsSelectExisting(t)
    \/ \E t \in Tasks : PsDevice(t)
    \/ SourceEdit
    \/ ExpireDuringSync

SpecSync == Init /\ [][NextSync]_vars

(***************************************************************************)
(* One sync run alone on a source of up to MaxDevices rows, so that the    *)
(* chunk loop makes full chunks and a short last chunk; the table may hold *)
(* a row before the run.                                                   *)
(***************************************************************************)
DeviceCodes == {"BW-01", "BW-02", "BW-03"}

InitChunks ==
    /\ \E ids \in SeqsUpTo(DeviceCodes \cup {NoId}, MaxDevices) :
         LET rows == [k \in DOMAIN ids |-> [survey_id |-> ids[k], status |-> "Working"]]
         IN  excel = [s \in SheetNames |-> rows]
    /\ edits = 0
    /\ devices \in {<<>>, <<[survey_id |-> "BW-02", status |-> "Failed"]>>}
    /\ sync_history = <<>> /\ audit_logs = <<>>
    /\ InitRuns /\ InitRedis /\ InitApp /\ InitNorm

NextChunks ==
    \/ StartRun(1)
    \/ SyncFetch(1)
    \/ SyncUpsertChunk(1)
    \/ PsGetSurveyData(1)
    \/ PsSelectExisting(1)
    \/ PsDevice(1)

SpecChunks == InitChunks /\ [][NextChunks]_vars

(***************************************************************************)
(* get_survey_data on the Redis cache, one call per step of a worker       *)
(* (web workers and Celery workers share the Redis instance).              *)
(***************************************************************************)
Impls == {"dashboard_app", "app"}

\* get_survey_data, the lookup (dashboard_app lines 220-230, app/services
\* lines 119-126): a true cached value is returned, otherwise the worker goes
\* on to the remote fetch
GsdLookup(w) ==
    /\ call[w].pc \in {"idle", "done"}
    /\ \A v \in Workers : v < w => call[v].pc # "idle"
    /\ calls < MaxCalls
    /\ calls' = calls + 1
    /\ \E impl \in Impls, sheet_name \in RequestedSheets :
         LET cached_data == redis_get(redis, cache_key(sheet_name))
             c == [IdleCall EXCEPT !.impl = impl, !.sheet = sheet_name, !.seen = cached_data]
         IN  call' = [call EXCEPT ![w] =
                        IF Truthy(cached_data)
                          THEN [c EXCEPT !.pc = "done", !.outcome = "hit"]
                          ELSE [c EXCEPT !.pc = "fetching"]]
    /\ UNCHANGED <<excel, edits, storeVars, syncVars, redis, appVars, normVars>>

\* get_survey_data, the call of fetch_excel_from_github returns or raises
GsdFetch(w) ==
    /\ call[w].pc = "fetching"
    /\ \E net \in Net :
         LET f == fetch_excel_from_github(redis, call[w].sheet, net)
         IN  /\ get_total_fetches(f.redis) <= MaxFetches
             /\ redis' = f.redis
             /\ call' = [call EXCEPT ![w] =
                           IF f.err # ""
                             THEN [@ EXCEPT !.pc = "done", !.outcome = f.err, !.wrote = f.wrote]
                             ELSE [@ EXCEPT !.pc = "storing", !.df = f.df, !.wrote = f.wrote,
                                            !.fetched = TRUE]]
    /\ UNCHANGED <<excel, edits, storeVars, syncVars, calls, appVars, normVars>>

\* get_survey_data, after the fetch (dashboard_app lines 232-256,
\* app/services lines 128-131): normalize, cache, return
GsdStore(w) ==
    /\ call[w].pc = "storing"
    /\ LET c  == call[w]
           st == IF c.impl = "dashboard_app"
                   THEN StoreResponse(redis, c.sheet, c.df)
                   ELSE StoreList(redis, c.sheet, c.df)
       IN  /\ redis' = st.redis
           /\ call' = [call EXCEPT ![w] =
                         IF st.err # ""
                           THEN [@ EXCEPT !.pc = "done", !.outcome = st.err]
                           ELSE [@ EXCEPT !.pc = "done", !.outcome = "stored",
                                          !.wrote = @ \cup {cache_key(c.sheet)}]]
    /\ UNCHANGED <<excel, edits, storeVars, syncVars, calls, appVars, normVars>>

\* the TTL of a key runs out
ExpireKey ==
    /\ \E key \in RedisKeys : Expire(key)
    /\ UNCHANGED <<excel, edits, storeVars, syncVars, call, calls, appVars, normVars>>

\* clear_all_caches: redis_client.flush_all()
clear_all_caches ==
    /\ \E key \in RedisKeys : redis[key] # Nil
    /\ redis' = [key \in RedisKeys |-> Nil]
    /\ UNCHANGED <<excel, edits, storeVars, syncVars, call, calls, appVars, normVars>>

NextCache ==
    \/ \E w \in Workers : GsdLookup(w)
    \/ \E w \in Workers : GsdFetch(w)
    \/ \E w \in Workers : GsdStore(w)
    \/ ExpireKey
    \/ clear_all_caches

\* the workbook read through the cache
InitCache ==
    /\ \E ids \in SeqsUpTo(Ids \cup {NoId}, MaxCachedRows) :
         LET rows == [i \in 1..Len(ids) |-> [survey_id |-> ids[i], status |-> "Working"]]
         IN  excel = [s \in SheetNames |-> rows]
    /\ edits = 0
    /\ InitStore
    /\ InitRuns
    /\ InitRedis
    /\ InitApp
    /\ InitNorm

SpecCache == InitCache /\ [][NextCache]_vars

(***************************************************************************)
(* app.py: the in-memory cache of the single-process server.  Handlers are *)
(* async functions without an await, so each runs to completion.           *)
(***************************************************************************)
At(n) == [k |-> "int", n |-> n]

\* Python None in a normalized record
None == "None"

\* the entry get_survey_data creates for a sheet it has not seen
EmptyEntry == [data |-> Nil, timestamp |-> Nil]

\* what the cache holds for a sheet
Entry(c, sheet_name) ==
    IF sheet_name \in DOMAIN c.sheets
      THEN [present |-> TRUE, data |-> c.sheets[sheet_name].data,
            timestamp |-> c.sheets[sheet_name].timestamp]
      ELSE [present |-> FALSE, data |-> Nil, timestamp |-> Nil]

SetEntry(c, sheet_name, e) ==
    [c EXCEPT !.sheets = [s \in DOMAIN c.sheets \cup {sheet_name} |->
                            IF s = sheet_name THEN e ELSE c.sheets[s]]]

is_cache_valid(c, sheet_name, t) ==
    /\ sheet_name \in DOMAIN c.sheets
    /\ c.sheets[sheet_name].data # Nil
    /\ c.sheets[sheet_name].timestamp # Nil
    /\ t - c.sheets[sheet_name].timestamp.n < CacheDurationTicks

\* normalize_survey_data of app.py: columns renamed, empty strings to None
app_normalize_survey_data(df) ==
    [i \in 1..Len(df) |->
        [surveyCode |-> IF df[i].survey_id = NoId THEN None ELSE df[i].survey_id,
         status     |-> df[i].status]]

\* fetch_excel_from_github of app.py at time t
app_fetch_excel_from_github(c, sheet_name, net, t) ==
    IF net = "timeout" THEN [cache |-> c, err |-> "RemoteFetchError", df |-> <<>>]
    ELSE IF net = "corrupt" THEN [cache |-> c, err |-> "ParseError", df |-> <<>>]
    ELSE LET c1 == [c EXCEPT !.available_sheets = [k |-> "names", names |-> DOMAIN excel],
                             !.sheets_timestamp = At(t)]
         IN  IF sheet_name \notin DOMAIN excel
               THEN [cache |-> c1, err |-> "SheetNotFoundError", df |-> <<>>]
             ELSE IF Len(excel[sheet_name]) = 0
               THEN [cache |-> c1, err |-> "ValidationError", df |-> <<>>]
             ELSE [cache |-> [c1 EXCEPT !.fetch_count = @ + 1],
                   err   |-> "",
                   df    |-> excel[sheet_name]]

\* the entry is reset whether or not the sheet is known
EnsureEntry_Always(c, sheet_name) ==
    SetEntry(c, sheet_name, EmptyEntry)

\* get_survey_data of app.py, "Initialize sheet cache if not exists"
EnsureEntry(c, sheet_name) ==
    IF sheet_name \notin DOMAIN c.sheets THEN SetEntry(c, sheet_name, EmptyEntry) ELSE c

\* get_survey_data of app.py at time t
app_get_survey_data(c, sheet_name, net, t) ==
    LET c1 == EnsureEntry(c, sheet_name)
    IN  IF is_cache_valid(c1, sheet_name, t)
          THEN [cache |-> c1, err |-> "", fetched |-> FALSE]
          ELSE LET f == app_fetch_excel_from_github(c1, sheet_name, net, t)
               IN  IF f.err # ""
                     THEN [cache |-> f.cache, err |-> f.err, fetched |-> TRUE]
                     ELSE [cache   |-> SetEntry(f.cache, sheet_name,
                                         [data      |-> [k |-> "list",
                                                         devices |-> app_normalize_survey_data(f.df)],
                                          timestamp |-> At(t)]),
                           err     |-> "",
                           fetched |-> TRUE]

\* what a handler leaves in `last`: the get_survey_data call it made
Called(op, sheet_name, c0, g) ==
    [op |-> op, sheet |-> sheet_name, err |-> g.err, fetched |-> g.fetched,
     before |-> Entry(c0, sheet_name), after |-> Entry(g.cache, sheet_name)]

\* GET /api/survey-data?sheet=...
get_all_survey_data ==
    \E sheet_name \in RequestedSheets, net \in Net :
        LET g == app_get_survey_data(cache, sheet_name, net, now)
        IN  /\ g.cache.fetch_count <= MaxFetches
            /\ cache' = g.cache
            /\ last' = Called("get_all_survey_data", sheet_name, cache, g)
            /\ UNCHANGED <<excel, edits, storeVars, syncVars, redisVars, normVars, now>>

\* POST /api/cache/refresh?sheet=...: the entry is emptied, then loaded
refresh_cache_sheet ==
    \E sheet_name \in RequestedSheets, net \in Net :
        LET c0 == IF sheet_name \in DOMAIN cache.sheets
                    THEN SetEntry(cache, sheet_name, EmptyEntry) ELSE cache
            g  == app_get_survey_data(c0, sheet_name, net, now)
        IN  /\ g.cache.fetch_count <= MaxFetches
            /\ cache' = g.cache
            /\ last' = Called("refresh_cache", sheet_name, c0, g)
            /\ UNCHANGED <<excel, edits, storeVars, syncVars, redisVars, normVars, now>>

\* POST /api/cache/refresh without a sheet: everything is dropped, then the
\* default sheet is loaded
refresh_cache_all ==
    \E net \in Net :
        LET c0 == [cache EXCEPT !.sheets = [s \in {} |-> Nil],
                                !.available_sheets = Nil,
                                !.sheets_timestamp = Nil]
            g  == app_get_survey_data(c0, SHEET_NAME, net, now)
        IN  /\ g.cache.fetch_count <= MaxFetches
            /\ cache' = g.cache
            /\ last' = Called("refresh_cache", SHEET_NAME, c0, g)
            /\ UNCHANGED <<excel, edits, storeVars, syncVars, redisVars, normVars, now>>

\* time passes
Tick ==
    /\ now < MaxClock
    /\ now' = now + 1
    /\ UNCHANGED <<excel, edits, storeVars, syncVars, redisVars, normVars, cache, last>>

NextApp ==
    \/ get_all_survey_data
    \/ refresh_cache_sheet
    \/ refresh_cache_all
    \/ Tick

SpecApp == InitCache /\ [][NextApp]_vars

(***************************************************************************)
(* Properties of the sync engine (checked under SpecSync).                 *)
(***************************************************************************)
DeviceIds(all_devices) == {all_devices[k].survey_id : k \in DOMAIN all_devices}
RowCount(tbl, id) == Cardinality(RowsWith(tbl, id))
\* every device of the run's source has a row in the table
Covers(tbl, all_devices) == DeviceIds(all_devices) \subseteq StoredIds(tbl)

\* a run that ended without an exception and with every write accepted
Clean(h) == h.exc = "" /\ h.issued = h.accepted

\* two runs one after the other, neither overlapping another run, that read
\* the same devices from the source
Successive(k) ==
    /\ k \in DOMAIN hist /\ k + 1 \in DOMAIN hist
    /\ hist[k].solo /\ hist[k + 1].solo
    /\ hist[k].src = hist[k + 1].src

C2_SyncRunFinalized ==
    /\ Len(sync_history) = started
    /\ Cardinality({k \in DOMAIN sync_history : sync_history[k].status = "running"})
         = Cardinality({t \in Tasks : Running(t)})
    /\ \A k \in DOMAIN sync_history :
           sync_history[k].status \in {"running", "success", "failed", "warning"}

\* C3: a run in which an exception occurred ends by raising it to the caller,
\* with a SyncRun record in status failed carrying the message
C3_FailurePropagates ==
    \A k \in DOMAIN hist :
        hist[k].exc # "" =>
            /\ hist[k].result = [status |-> "raised", message |-> hist[k].exc]
            /\ \E j \in DOMAIN sync_history :
                   sync_history[j].status = "failed" /\ sync_history[j].message = hist[k].exc

\* no row of the workbook carries a survey id, so no row is a valid device
SourceHasNoValidDevice ==
    \A s \in DOMAIN excel : \A k \in DOMAIN excel[s] : excel[s][k].survey_id = NoId

ReadStatuses(id) ==
    LET lists == {hist[k].src : k \in DOMAIN hist} \cup {run[t].all_devices : t \in Tasks}
    IN  UNION {{L[j].status : j \in {n \in DOMAIN L : L[n].survey_id = id}} : L \in lists}

ChangedFields(h) ==
    UNION {{<<h.before[k].survey_id, h.before[k].status, h.after[j].status>> :
               j \in {n \in DOMAIN h.after : /\ h.after[n].survey_id = h.before[k].survey_id
                                             /\ h.after[n].status # h.before[k].status}} :
           k \in DOMAIN h.before}

\* C6: audit_logs holds an entry (field, old value, new value) for a device
\* field exactly when a run overwrote that field with a different value
C6_AuditIffChanged ==
    /\ \A k \in DOMAIN hist :
         hist[k].solo =>
           \A c \in ChangedFields(hist[k]) :
             \E a \in DOMAIN audit_logs :
               audit_logs[a] = [record_id |-> c[1], field |-> "status",
                                old_data |-> c[2], new_data |-> c[3]]
    /\ \A a \in DOMAIN audit_logs :
         \E k \in DOMAIN hist :
           <<audit_logs[a].record_id, audit_logs[a].old_data, audit_logs[a].new_data>>
               \in ChangedFields(hist[k])

(***************************************************************************)
(* Properties of get_survey_data on Redis (checked under SpecCache).       *)
(***************************************************************************)
Fetching(sheet_name) ==
    {w \in Workers : call[w].pc = "fetching" /\ call[w].sheet = sheet_name}

\* C7: at most one remote fetch per sheet key is in flight
C7_SingleFlight ==
    \A sheet_name \in RequestedSheets : Cardinality(Fetching(sheet_name)) <= 1

\* C8: a call goes to the remote fetch only when the cache holds no entry for
\* its key, and a call whose fetch succeeded has stored its result under the
\* key
C8_FetchOnlyOnMissThenStored ==
    \A w \in Workers :
        /\ call[w].pc = "fetching" => call[w].seen = Nil
        /\ (call[w].pc = "done" /\ call[w].fetched) =>
               /\ call[w].outcome = "stored"
               /\ cache_key(call[w].sheet) \in call[w].wrote

AbortErrors == {"RemoteFetchError", "SheetNotFoundError", "ParseError"}

\* C10: a call that aborted with a RemoteFetchError, a SheetNotFoundError or
\* a ParseError has set no cache key
C10_AbortWritesNoKey ==
    \A w \in Workers :
        (call[w].pc = "done" /\ call[w].outcome \in AbortErrors) => call[w].wrote = {}

(***************************************************************************)
(* Properties of the in-memory cache of app.py (checked under SpecApp).    *)
(***************************************************************************)
FetchFailed == last.op # "none" /\ last.err = "RemoteFetchError"

Uppers == "ABCDEFGHIJKLMNOPQRSTUVWXYZ"
Lowers == "abcdefghijklmnopqrstuvwxyz"
Digits == "0123456789"

Char(s, i) == SubSeq(s, i, i)

\* position of the character c in alphabet, 0 when it is not there
IndexIn(c, alphabet) ==
    IF \E i \in 1..Len(alphabet) : Char(alphabet, i) = c
      THEN CHOOSE i \in 1..Len(alphabet) : Char(alphabet, i) = c
      ELSE 0

\* one character in lower case / in upper case
LowerChar(c) == LET i == IndexIn(c, Uppers) IN IF i = 0 THEN c ELSE Char(Lowers, i)
UpperChar(c) == LET i == IndexIn(c, Lowers) IN IF i = 0 THEN c ELSE Char(Uppers, i)

\* str.lower(), computed by halves
RECURSIVE lower(_)
lower(s) ==
    IF Len(s) = 0 THEN ""
    ELSE IF Len(s) = 1 THEN LowerChar(s)
    ELSE LET h == Len(s) \div 2
         IN  lower(SubSeq(s, 1, h)) \o lower(SubSeq(s, h + 1, Len(s)))

\* str.upper(), computed by halves
RECURSIVE upper(_)
upper(s) ==
    IF Len(s) = 0 THEN ""
    ELSE IF Len(s) = 1 THEN UpperChar(s)
    ELSE LET h == Len(s) \div 2
         IN  upper(SubSeq(s, 1, h)) \o upper(SubSeq(s, h + 1, Len(s)))

\* str.strip(): the spaces at both ends are removed
strip(s) ==
    LET inked == {i \in 1..Len(s) : Char(s, i) # " "}
    IN  IF inked = {} THEN ""
        ELSE SubSeq(s, CHOOSE i \in inked : \A j \in inked : i <= j,
                       CHOOSE i \in inked : \A j \in inked : i >= j)

\* sub in s
Contains(s, sub) ==
    \E i \in 1..(Len(s) - Len(sub) + 1) : SubSeq(s, i, i + Len(sub) - 1) = sub

IsDigits(s) == Len(s) > 0 /\ \A i \in 1..Len(s) : IndexIn(Char(s, i), Digits) # 0
IsZeros(s)  == \A i \in 1..Len(s) : Char(s, i) = "0"

RECURSIVE DigitsValue(_)
DigitsValue(s) ==
    IF Len(s) = 0 THEN 0
    ELSE 10 * DigitsValue(SubSeq(s, 1, Len(s) - 1)) + (IndexIn(Char(s, Len(s)), Digits) - 1)

RECURSIVE NatToStr(_)
NatToStr(n) ==
    IF n < 10 THEN Char(Digits, n + 1)
    ELSE NatToStr(n \div 10) \o Char(Digits, (n % 10) + 1)

IntToStr(n) == IF n < 0 THEN "-" \o NatToStr(0 - n) ELSE NatToStr(n)

\* the values a cell, or an argument of a sanitizer, can be: None, NaN, the
\* infinities, an int, a float (of whole value n), a bool, a str
NaN    == [k |-> "nan"]
PosInf == [k |-> "inf"]
NegInf == [k |-> "ninf"]
PyInt(n)   == [k |-> "int", n |-> n]
PyFloat(n) == [k |-> "float", n |-> n]
PyBool(b)  == [k |-> "bool", b |-> b]
PyStr(s)   == [k |-> "str", s |-> s]

\* str(value)
str(value) ==
    CASE value.k = "nil"   -> "None"
      [] value.k = "nan"   -> "nan"
      [] value.k = "inf"   -> "inf"
      [] value.k = "ninf"  -> "-inf"
      [] value.k = "int"   -> IntToStr(value.n)
      [] value.k = "float" -> IntToStr(value.n) \o ".0"
      [] value.k = "bool"  -> IF value.b THEN "True" ELSE "False"
      [] value.k = "str"   -> value.s

\* float(s) of a string without sign: nan, inf, infinity in any case, digits,
\* digits with a fraction (the fractions of this model are zero); anything
\* else is a ValueError
UnsignedFloat(t) ==
    LET dot == IF \E i \in 1..Len(t) : Char(t, i) = "."
                 THEN CHOOSE i \in 1..Len(t) : Char(t, i) = "." ELSE 0
    IN  IF lower(t) = "nan" THEN NaN
        ELSE IF lower(t) \in {"inf", "infinity"} THEN PosInf
        ELSE IF IsDigits(t) THEN PyFloat(DigitsValue(t))
        ELSE IF /\ dot > 1
                /\ IsDigits(SubSeq(t, 1, dot - 1))
                /\ IsZeros(SubSeq(t, dot + 1, Len(t)))
               THEN PyFloat(DigitsValue(SubSeq(t, 1, dot - 1)))
        ELSE [k |-> "ValueError"]

\* float(s)
float(s) ==
    LET t    == strip(s)
        neg  == Len(t) > 0 /\ Char(t, 1) = "-"
        body == IF Len(t) > 0 /\ Char(t, 1) \in {"-", "+"} THEN SubSeq(t, 2, Len(t)) ELSE t
        u    == UnsignedFloat(body)
    IN  IF ~neg THEN u
        ELSE IF u.k = "float" THEN PyFloat(0 - u.n)
        ELSE IF u.k = "inf" THEN NegInf
        ELSE u

\* pd.isna(value)
isna(value) == value.k \in {"nil", "nan"}

(***************************************************************************)
(* DataNormalizer: the field sanitizers.  A sanitizer returns None (Nil),  *)
(* a typed value, or [k |-> "raise"] when an exception leaves it.          *)
(***************************************************************************)
Raise(exc) == [k |-> "raise", exc |-> exc]

\* a cell that holds a list or an array: pd.isna gives an array for it, and
\* "if pd.isna(value) or value is None" raises ValueError on the array
ListCell == [k |-> "array"]
IsListLike(value) == value.k = "array"

sanitize_coordinate(value) ==
    IF IsListLike(value) THEN Raise("ValueError")
    ELSE IF isna(value) THEN Nil
    ELSE LET coord_str == strip(str(value))
         IN  IF coord_str = "" \/ lower(coord_str) \in {"nan", "none", "null", ""} THEN Nil
             ELSE LET coord == float(coord_str)
                  IN  IF coord.k = "ValueError" THEN Nil
                      ELSE IF coord.k \in {"nan", "inf", "ninf"} THEN Nil
                      ELSE coord

sanitize_string(value) ==
    IF IsListLike(value) THEN Raise("ValueError")
    ELSE IF isna(value) THEN Nil
    ELSE LET cleaned == strip(str(value))
         IN  IF lower(cleaned) \in {"nan", "none", "null", "n/a", ""} THEN Nil
             ELSE PyStr(cleaned)

\* int(num): a ValueError for NaN, an OverflowError for an infinity
int(num) ==
    CASE num.k = "nan"            -> [k |-> "ValueError"]
      [] num.k \in {"inf", "ninf"} -> [k |-> "OverflowError"]
      [] OTHER                    -> PyInt(num.n)

\* the range validation of sanitize_integer and sanitize_float
InRange(typed, min_val, max_val) ==
    IF typed.n < min_val THEN Nil
    ELSE IF typed.n > max_val THEN Nil
    ELSE typed

\* sanitize_integer without the test for NaN and infinity
sanitize_integer_NoFiniteTest(value, min_val, max_val) ==
    IF IsListLike(value) THEN Raise("ValueError")
    ELSE IF isna(value) THEN Nil
    ELSE LET num == float(strip(str(value)))
         IN  IF num.k = "ValueError" THEN Nil
             ELSE LET num_int == int(num)
                  IN  IF num_int.k = "ValueError" THEN Nil
                      ELSE IF num_int.k = "OverflowError" THEN Raise("OverflowError")
                      ELSE InRange(num_int, min_val, max_val)

\* sanitize_integer; only (ValueError, TypeError) are caught
sanitize_integer(value, min_val, max_val) ==
    IF IsListLike(value) THEN Raise("ValueError")
    ELSE IF isna(value) THEN Nil
    ELSE LET num == float(strip(str(value)))
         IN  IF num.k = "ValueError" THEN Nil
             ELSE IF num.k \in {"nan", "inf", "ninf"} THEN Nil
             ELSE LET num_int == int(num)
                  IN  IF num_int.k = "ValueError" THEN Nil
                      ELSE IF num_int.k = "OverflowError" THEN Raise("OverflowError")
                      ELSE InRange(num_int, min_val, max_val)

sanitize_float(value, min_val, max_val) ==
    IF IsListLike(value) THEN Raise("ValueError")
    ELSE IF isna(value) THEN Nil
    ELSE LET num == float(strip(str(value)))
         IN  IF num.k = "ValueError" THEN Nil
             ELSE IF num.k \in {"nan", "inf", "ninf"} THEN Nil
             ELSE InRange(num, min_val, max_val)

\* dict.get(key, default) of the two normalization maps
MapGet(map, key, default) == IF key \in DOMAIN map THEN PyStr(map[key]) ELSE default

type_map ==
    [key \in {"borewell", "bore well", "bw", "sump", "sm", "oht", "ohsr",
              "overhead tank", "overhead"} |->
        IF key \in {"borewell", "bore well", "bw"} THEN "Borewell"
        ELSE IF key \in {"sump", "sm"} THEN "Sump"
        ELSE "OHSR"]

status_map ==
    [key \in {"working", "work", "not working", "not work", "notworking",
              "on repair", "repair", "failed", "fail"} |->
        IF key \in {"working", "work"} THEN "Working"
        ELSE IF key \in {"not working", "not work", "notworking"} THEN "Not Working"
        ELSE IF key \in {"on repair", "repair"} THEN "On Repair"
        ELSE "Failed"]

\* value.strip() if isinstance(value, str) else None
StrippedIfStr(value) == IF value.k = "str" THEN PyStr(strip(value.s)) ELSE Nil

normalize_device_type(value) ==
    IF IsListLike(value) THEN Raise("ValueError")
    ELSE IF isna(value) THEN Nil
    ELSE MapGet(type_map, lower(strip(str(value))), StrippedIfStr(value))

normalize_status(value) ==
    IF IsListLike(value) THEN Raise("ValueError")
    ELSE IF isna(value) THEN Nil
    ELSE MapGet(status_map, lower(strip(str(value))), StrippedIfStr(value))

(***************************************************************************)
(* excel_schema and ExcelValidator.                                        *)
(***************************************************************************)
EXCEL_HEADER_MAP ==
    [h \in {"Survey Code (ID)", "Original Name", "Zone", "Street Name / Landmark",
            "Device Type", "Status", "Latitude", "Longitude", "Houses Conn.",
            "Daily Usage (Hrs)", "Pipe Size (inch)", "Motor HP / Cap",
            "Notes / Maintenance Issue"} |->
        CASE h = "Survey Code (ID)"          -> "survey_id"
          [] h = "Original Name"             -> "original_name"
          [] h = "Zone"                      -> "zone"
          [] h = "Street Name / Landmark"    -> "street"
          [] h = "Device Type"               -> "device_type"
          [] h = "Status"                    -> "status"
          [] h = "Latitude"                  -> "lat"
          [] h = "Longitude"                 -> "lng"
          [] h = "Houses Conn."              -> "houses"
          [] h = "Daily Usage (Hrs)"         -> "usage_hours"
          [] h = "Pipe Size (inch)"          -> "pipe_size"
          [] h = "Motor HP / Cap"            -> "motor_hp"
          [] h = "Notes / Maintenance Issue" -> "notes"]

REQUIRED_FIELDS == <<"survey_id", "lat", "lng">>

\* [dt.value for dt in DeviceType], [ds.value for ds in DeviceStatus]
DeviceType   == <<"Borewell", "Sump", "OHT", "OHSR", "Overhead Tank">>
DeviceStatus == <<"Working", "Not Working", "Not Work", "On Repair", "Failed", "Repair">>

VALIDATION_RULES ==
    [lat         |-> [min |-> -90,  max |-> 90],
     lng         |-> [min |-> -180, max |-> 180],
     houses      |-> [min |-> 0,    max |-> 10000],
     usage_hours |-> [min |-> 0,    max |-> 24],
     pipe_size   |-> [min |-> 0,    max |-> 100],
     motor_hp    |-> [min |-> 0,    max |-> 1000]]

CANONICAL_SCHEMA ==
    {"survey_id", "original_name", "zone", "street", "device_type", "status", "lat",
     "lng", "houses", "usage_hours", "pipe_size", "motor_hp", "notes", "row_index"}

Range(seq) == {seq[i] : i \in DOMAIN seq}

\* ', '.join(items)
RECURSIVE Join(_)
Join(items) ==
    IF Len(items) = 0 THEN ""
    ELSE IF Len(items) = 1 THEN items[1]
    ELSE items[1] \o ", " \o Join(Tail(items))

\* the errors of the required fields: "if not row.get(field)"
RECURSIVE RequiredErrors(_, _)
RequiredErrors(row, fields) ==
    IF fields = <<>> THEN <<>>
    ELSE (IF ~Truthy(row[Head(fields)])
            THEN <<"Missing required field: " \o Head(fields)>> ELSE <<>>)
         \o RequiredErrors(row, Tail(fields))

CoordinateErrors(row) ==
    LET lat == row.lat
        lng == row.lng
    IN  IF lat = Nil /\ lng = Nil
          THEN <<"Missing GPS coordinates (both lat and lng are null)">>
        ELSE IF lat = Nil THEN <<"Missing latitude">>
        ELSE IF lng = Nil THEN <<"Missing longitude">>
        ELSE (IF ~(VALIDATION_RULES.lat.min <= lat.n /\ lat.n <= VALIDATION_RULES.lat.max)
                THEN <<"Latitude out of range: " \o str(lat) \o " (must be -90 to 90)">>
                ELSE <<>>)
             \o
             (IF ~(VALIDATION_RULES.lng.min <= lng.n /\ lng.n <= VALIDATION_RULES.lng.max)
                THEN <<"Longitude out of range: " \o str(lng) \o " (must be -180 to 180)">>
                ELSE <<>>)

\* the membership test of device_type and of status
AllowedErrors(value, what, allowed) ==
    IF Truthy(value) /\ value.s \notin Range(allowed)
      THEN <<"Unknown " \o what \o ": '" \o value.s \o "' (allowed: " \o Join(allowed) \o ")">>
      ELSE <<>>

\* a bound of VALIDATION_RULES as an f-string prints it: an int for houses, a
\* float for the other fields
RuleStr(field, bound) ==
    IF field = "houses" THEN str(PyInt(bound)) ELSE str(PyFloat(bound))

\* _validate_numeric_field
validate_numeric_field(row, field) ==
    LET value == row[field]
    IN  IF value = Nil THEN <<>>
        ELSE (IF value.n < VALIDATION_RULES[field].min
                THEN <<field \o " below minimum: " \o str(value) \o " < "
                         \o RuleStr(field, VALIDATION_RULES[field].min)>>
                ELSE <<>>)
             \o
             (IF value.n > VALIDATION_RULES[field].max
                THEN <<field \o " above maximum: " \o str(value) \o " > "
                         \o RuleStr(field, VALIDATION_RULES[field].max)>>
                ELSE <<>>)

\* ExcelValidator.validate_row: the list of errors (is_valid is its emptiness)
ValidateRow(row) ==
    RequiredErrors(row, REQUIRED_FIELDS)
      \o CoordinateErrors(row)
      \o AllowedErrors(row.device_type, "device type", DeviceType)
      \o AllowedErrors(row.status, "status", DeviceStatus)
      \o validate_numeric_field(row, "houses")
      \o validate_numeric_field(row, "usage_hours")
      \o validate_numeric_field(row, "pipe_size")
      \o validate_numeric_field(row, "motor_hp")

\* ExcelValidator._categorize_error
categorize_error(error_message) ==
    LET error_lower == lower(error_message)
    IN  IF /\ Contains(error_lower, "missing")
           /\ \/ Contains(error_lower, "lat") \/ Contains(error_lower, "lng")
              \/ Contains(error_lower, "gps") \/ Contains(error_lower, "coordinate")
          THEN "missing_coordinates"
        ELSE IF Contains(error_lower, "missing required field") THEN "missing_required_field"
        ELSE IF Contains(error_lower, "out of range") THEN "coordinate_out_of_range"
        ELSE IF Contains(error_lower, "unknown device type") THEN "invalid_device_type"
        ELSE IF Contains(error_lower, "unknown status") THEN "invalid_status"
        ELSE IF Contains(error_lower, "below minimum") \/ Contains(error_lower, "above maximum")
          THEN "numeric_range_violation"
        ELSE "other_validation_error"

\* a count of the first error of a row only
CountErrors_FirstOnly(error_counts, errors) ==
    IF errors = <<>> THEN error_counts
    ELSE LET error_type == categorize_error(Head(errors))
         IN  [t \in DOMAIN error_counts \cup {error_type} |->
                IF t = error_type
                  THEN (IF t \in DOMAIN error_counts THEN error_counts[t] ELSE 0) + 1
                  ELSE error_counts[t]]

\* error_counts[error_type] = error_counts.get(error_type, 0) + 1, for every
\* error of a row
RECURSIVE CountErrors(_, _)
CountErrors(error_counts, errors) ==
    IF errors = <<>> THEN error_counts
    ELSE LET error_type == categorize_error(Head(errors))
             counted    == [t \in DOMAIN error_counts \cup {error_type} |->
                              IF t = error_type
                                THEN (IF t \in DOMAIN error_counts THEN error_counts[t] ELSE 0) + 1
                                ELSE error_counts[t]]
         IN  CountErrors(counted, Tail(errors))

\* {**row, "validation_errors": errors}
WithErrors(row, errors) ==
    [f \in DOMAIN row \cup {"validation_errors"} |->
        IF f = "validation_errors" THEN errors ELSE row[f]]

\* a loop body that files a row under both lists when it has errors
BatchStep_AlsoValid(acc, row) ==
    LET errors == ValidateRow(row)
    IN  IF errors = <<>>
          THEN [acc EXCEPT !.valid_devices = Append(@, row)]
          ELSE [acc EXCEPT !.valid_devices = Append(@, row),
                           !.invalid_devices = Append(@, WithErrors(row, errors)),
                           !.error_counts = CountErrors(@, errors)]

\* validate_batch, the body of the loop over the rows
BatchStep(acc, row) ==
    LET errors == ValidateRow(row)
    IN  IF errors = <<>>
          THEN [acc EXCEPT !.valid_devices = Append(@, row)]
          ELSE [acc EXCEPT !.invalid_devices = Append(@, WithErrors(row, errors)),
                           !.error_counts = CountErrors(@, errors)]

\* a loop that an invalid row ends: the rows after it are not looked at
RECURSIVE BatchLoop_Break(_, _)
BatchLoop_Break(acc, rows) ==
    IF rows = <<>> THEN acc
    ELSE IF ValidateRow(Head(rows)) # <<>> THEN BatchStep(acc, Head(rows))
    ELSE BatchLoop_Break(BatchStep(acc, Head(rows)), Tail(rows))

RECURSIVE BatchLoop(_, _)
BatchLoop(acc, rows) ==
    IF rows = <<>> THEN acc ELSE BatchLoop(BatchStep(acc, Head(rows)), Tail(rows))

\* round(num / den, 0) for num >= 0, den > 0: the nearest integer, a tie going
\* to the even one
RoundDiv(num, den) ==
    LET q == num \div den
        r == num % den
    IN  IF 2 * r < den THEN q
        ELSE IF 2 * r > den THEN q + 1
        ELSE IF q % 2 = 0 THEN q ELSE q + 1

\* a rate cut off after two decimals
validation_rate_Truncated(valid_count, total) ==
    IF total > 0 THEN (valid_count * 10000) \div total ELSE 0

\* round((valid_count / total * 100) if total > 0 else 0, 2), in hundredths of
\* a percent
validation_rate(valid_count, total) ==
    IF total > 0 THEN RoundDiv(valid_count * 10000, total) ELSE 0

\* ExcelValidator.validate_batch
validate_batch(rows) ==
    LET acc == BatchLoop([valid_devices |-> <<>>, invalid_devices |-> <<>>,
                          error_counts |-> [t \in {} |-> 0]], rows)
        total         == Len(rows)
        valid_count   == Len(acc.valid_devices)
        invalid_count == Len(acc.invalid_devices)
    IN  [valid_devices   |-> acc.valid_devices,
         invalid_devices |-> acc.invalid_devices,
         stats |-> [total           |-> total,
                    valid           |-> valid_count,
                    invalid         |-> invalid_count,
                    validation_rate |-> validation_rate(valid_count, total),
                    error_breakdown |-> acc.error_counts]]

(***************************************************************************)
(* normalize_survey_data of dashboard_app on a DataFrame: df.columns is    *)
(* the sequence of headers, df.rows the rows, each the cells in column     *)
(* order.  (normalize_survey_data above is this pipeline on the sheets of  *)
(* the sync model, whose rows differ in survey id and status only.)        *)
(***************************************************************************)
\* validate_excel_headers
validate_excel_headers(excel_headers) ==
    LET expected == DOMAIN EXCEL_HEADER_MAP
        actual   == Range(excel_headers)
    IN  [valid           |-> expected \ actual = {},
         missing_headers |-> expected \ actual,
         extra_headers   |-> actual \ expected]

\* df.rename(columns=EXCEL_HEADER_MAP): a header that is a key of the map is
\* replaced, any other header stays
Rename(columns) ==
    [i \in DOMAIN columns |->
        IF columns[i] \in DOMAIN EXCEL_HEADER_MAP THEN EXCEL_HEADER_MAP[columns[i]]
        ELSE columns[i]]

\* row.get(name): the cell of the column of that name, None without one
RowGet(columns, cells, name) ==
    IF \E i \in DOMAIN columns : columns[i] = name
      THEN cells[CHOOSE i \in DOMAIN columns : columns[i] = name]
      ELSE Nil

\* a normalized row with the fields of the columns of the sheet only
NormalizedRow_PresentOnly(columns, cells, idx) ==
    LET full == [survey_id     |-> sanitize_string(RowGet(columns, cells, "survey_id")),
                 original_name |-> sanitize_string(RowGet(columns, cells, "original_name")),
                 zone          |-> sanitize_string(RowGet(columns, cells, "zone")),
                 street        |-> sanitize_string(RowGet(columns, cells, "street")),
                 device_type   |-> normalize_device_type(RowGet(columns, cells, "device_type")),
                 status        |-> normalize_status(RowGet(columns, cells, "status")),
                 lat           |-> sanitize_coordinate(RowGet(columns, cells, "lat")),
                 lng           |-> sanitize_coordinate(RowGet(columns, cells, "lng")),
                 houses        |-> sanitize_integer(RowGet(columns, cells, "houses"), 0, 10000),
                 usage_hours   |-> sanitize_float(RowGet(columns, cells, "usage_hours"), 0, 24),
                 pipe_size     |-> sanitize_float(RowGet(columns, cells, "pipe_size"), 0, 100),
                 motor_hp      |-> sanitize_float(RowGet(columns, cells, "motor_hp"), 0, 1000),
                 notes         |-> sanitize_string(RowGet(columns, cells, "notes")),
                 row_index     |-> idx + 2]
    IN  [f \in {g \in DOMAIN full : g \in {"original_name", "zone", "street", "notes"}
                                         => g \in Range(columns)} |-> full[f]]

\* the normalized row of the row at index idx (from 0)
NormalizedRow(columns, cells, idx) ==
    [survey_id     |-> sanitize_string(RowGet(columns, cells, "survey_id")),
     original_name |-> sanitize_string(RowGet(columns, cells, "original_name")),
     zone          |-> sanitize_string(RowGet(columns, cells, "zone")),
     street        |-> sanitize_string(RowGet(columns, cells, "street")),
     device_type   |-> normalize_device_type(RowGet(columns, cells, "device_type")),
     status        |-> normalize_status(RowGet(columns, cells, "status")),
     lat           |-> sanitize_coordinate(RowGet(columns, cells, "lat")),
     lng           |-> sanitize_coordinate(RowGet(columns, cells, "lng")),
     houses        |-> sanitize_integer(RowGet(columns, cells, "houses"), 0, 10000),
     usage_hours   |-> sanitize_float(RowGet(columns, cells, "usage_hours"), 0, 24),
     pipe_size     |-> sanitize_float(RowGet(columns, cells, "pipe_size"), 0, 100),
     motor_hp      |-> sanitize_float(RowGet(columns, cells, "motor_hp"), 0, 1000),
     notes         |-> sanitize_string(RowGet(columns, cells, "notes")),
     row_index     |-> idx + 2]

\* make_json_safe of a device: a float NaN or infinity becomes None
make_json_safe(device) ==
    [f \in DOMAIN device |->
        IF f \in {"row_index", "validation_errors"} THEN device[f]
        ELSE IF device[f].k \in {"nan", "inf", "ninf"} THEN Nil
        ELSE device[f]]

\* the exceptions that left the sanitizers of a row; the loop over the rows
\* has no handler, so the first one leaves normalize_survey_data
RowRaised(normalized_row) ==
    {normalized_row[f] : f \in {g \in DOMAIN normalized_row \ {"row_index"} :
                                  normalized_row[g].k = "raise"}}

\* the exception that leaves the loop over the rows: the first one raised
FirstRaised(normalized_rows) ==
    LET i == CHOOSE i \in DOMAIN normalized_rows :
                /\ RowRaised(normalized_rows[i]) # {}
                /\ \A j \in 1..(i - 1) : RowRaised(normalized_rows[j]) = {}
    IN  CHOOSE e \in RowRaised(normalized_rows[i]) : TRUE

\* lines 148-168: validate_batch, make_json_safe and the returned dict
ReturnedDict(validation_result, header_validation) ==
    [valid_devices     |-> [i \in DOMAIN validation_result.valid_devices |->
                             make_json_safe(validation_result.valid_devices[i])],
     invalid_devices   |-> [i \in DOMAIN validation_result.invalid_devices |->
                             make_json_safe(validation_result.invalid_devices[i])],
     stats             |-> validation_result.stats,
     header_validation |-> header_validation]

\* lines 112-168, once the rows are normalized
AfterRows(normalized_rows, header_validation) ==
    IF \E i \in DOMAIN normalized_rows : RowRaised(normalized_rows[i]) # {}
      THEN FirstRaised(normalized_rows)
      ELSE ReturnedDict(validate_batch(normalized_rows), header_validation)

NormalizeSurveyData(df) ==
    IF Len(df.rows) = 0 \/ Len(df.columns) = 0
      THEN [valid_devices   |-> <<>>,
            invalid_devices |-> <<>>,
            stats |-> [total |-> 0, valid |-> 0, invalid |-> 0, validation_rate |-> 0,
                       error_breakdown |-> [t \in {} |-> 0]]]
      ELSE AfterRows([i \in 1..Len(df.rows) |-> NormalizedRow(Rename(df.columns), df.rows[i], i - 1)],
                     validate_excel_headers(df.columns))

(***************************************************************************)
(* The inputs of the normalization pipeline, and its operations.           *)
(***************************************************************************)
\* the columns of a sheet of this model, under the headers of the dictionary
ExactColumns == <<"Survey Code (ID)", "Status", "Latitude", "Longitude">>

\* the headers as a third party may have typed or renamed them
HeaderStyles == {"lower", "upper", "padded", "keyword", "no_gps"}

StyledColumns(style) ==
    CASE style = "exact"   -> ExactColumns
      [] style = "lower"   -> [i \in DOMAIN ExactColumns |-> lower(ExactColumns[i])]
      [] style = "upper"   -> [i \in DOMAIN ExactColumns |-> upper(ExactColumns[i])]
      [] style = "padded"  -> <<"Survey  Code(ID) ", "Status ", " Latitude", "Longitude ">>
      [] style = "keyword" -> <<"Survey Code", "Status", "GPS Lat", "GPS Long">>
      [] style = "no_gps"  -> <<"Survey Code (ID)", "Status">>

\* cells of the four columns; an empty cell is read as NaN
IdCells     == {NaN, PyStr("BW-01"), PyStr("BW-02")}
StatusCells == {NaN, PyStr(" working "), PyStr("  "), PyStr("Broken"), PyInt(5)}
CoordCells  == {<<NaN, NaN>>, <<PyFloat(17), PyFloat(78)>>, <<PyFloat(0), PyFloat(78)>>,
                <<PyFloat(95), PyFloat(78)>>, <<PyFloat(17), NaN>>}
\* a row with an id, a status and coordinates
GoodCells == <<PyStr("BW-01"), PyStr(" working "), PyFloat(17), PyFloat(78)>>

\* the rows of a sheet: the good row with one column changed
SheetRows ==
    {[GoodCells EXCEPT ![1] = id] : id \in IdCells}
      \cup {[GoodCells EXCEPT ![2] = st] : st \in StatusCells}
      \cup {[GoodCells EXCEPT ![3] = c[1], ![4] = c[2]] : c \in CoordCells}

DataFrame(style, rows) ==
    [k |-> "df", style |-> style,
     df |-> [columns |-> StyledColumns(style),
             rows    |-> [i \in DOMAIN rows |-> SubSeq(rows[i], 1, Len(StyledColumns(style)))]]]

\* the good row with a list in the Latitude cell
ListCells == [GoodCells EXCEPT ![3] = ListCell]

\* a sheet with a fifth column, under a header the header dictionary does not
\* hold: free text, or the name of a canonical field typed as a header
ExtraHeaders == {"Remarks", "zone"}
ExtraCells   == {PyStr("Z1"), PyStr("Z2")}
WithColumn(rows, header, cell) ==
    [k |-> "df", style |-> "extra",
     df |-> [columns |-> ExactColumns \o <<header>>,
             rows    |-> [i \in DOMAIN rows |-> rows[i] \o <<cell>>]]]

DfInputs ==
    {DataFrame("exact", rows) : rows \in SeqsUpTo(SheetRows, MaxSheetRows)}
      \cup {WithColumn(rows, header, cell) :
              rows \in SeqsUpTo({GoodCells}, MaxSheetRows) \ {<<>>},
              header \in ExtraHeaders, cell \in ExtraCells}
      \cup {DataFrame("exact", rows) : rows \in SeqsUpTo({GoodCells, ListCells}, MaxSheetRows)}
      \cup {DataFrame(style, rows) :
              style \in HeaderStyles, rows \in SeqsUpTo({GoodCells}, MaxSheetRows) \ {<<>>}}

\* normalized rows a caller may hand to validate_batch
GoodRow == NormalizedRow(Rename(ExactColumns), GoodCells, 0)
BatchRows ==
    {GoodRow,
     [GoodRow EXCEPT !.lat = Nil, !.lng = Nil],
     [GoodRow EXCEPT !.lng = Nil, !.status = PyStr("Broken")],
     [GoodRow EXCEPT !.houses = PyInt(-1), !.lat = PyFloat(95)],
     [GoodRow EXCEPT !.device_type = PyStr("GPS missing"), !.status = PyStr("Out of range")]}
BatchInputs == {[k |-> "rows", rows |-> rows] : rows \in SeqsUpTo(BatchRows, MaxBatch)}

\* primitive values a sanitizer may be handed
Primitives ==
    {Nil, NaN, PosInf, NegInf, PyBool(TRUE), PyBool(FALSE),
     PyInt(0), PyInt(-5), PyInt(120), PyInt(20000), PyFloat(17), PyFloat(-200)}
      \cup {PyStr(t) : t \in {"", "   ", "nan", "NaN", "None", "NULL", "N/A", "abc",
                              "17", " 17.0 ", "-3", "inf", "-Infinity", "20000",
                              " BW ", "Overhead Tank", "not work", "Broken"}}
ValueInputs == {[k |-> "value", value |-> v] : v \in Primitives}

\* what the caller of normalize_survey_data gets: the dict, or the exception
Outcome(out) ==
    IF "k" \in DOMAIN out
      THEN [op |-> "raise", exc |-> out.exc]
      ELSE [op |-> "normalize_survey_data", out |-> out]

\* normalize_survey_data(df)
NormalizeSheet ==
    /\ arg.k = "df" /\ returned.op = "none"
    /\ returned' = Outcome(NormalizeSurveyData(arg.df))
    /\ UNCHANGED <<excel, edits, storeVars, syncVars, redisVars, appVars, arg>>

\* ExcelValidator().validate_batch(rows)
ValidateBatch ==
    /\ arg.k = "rows" /\ returned.op = "none"
    /\ returned' = [op |-> "validate_batch", out |-> validate_batch(arg.rows)]
    /\ UNCHANGED <<excel, edits, storeVars, syncVars, redisVars, appVars, arg>>

\* every sanitizer of DataNormalizer on one value, with the bounds
\* normalize_survey_data passes
Sanitize ==
    /\ arg.k = "value" /\ returned.op = "none"
    /\ returned' = [op          |-> "sanitize",
                    coordinate  |-> sanitize_coordinate(arg.value),
                    string      |-> sanitize_string(arg.value),
                    integer     |-> sanitize_integer(arg.value, 0, 10000),
                    float       |-> sanitize_float(arg.value, 0, 24),
                    device_type |-> normalize_device_type(arg.value),
                    status      |-> normalize_status(arg.value)]
    /\ UNCHANGED <<excel, edits, storeVars, syncVars, redisVars, appVars, arg>>

InitNormalize ==
    /\ arg \in DfInputs \cup BatchInputs \cup ValueInputs
    /\ returned = [op |-> "none"]
    /\ excel = [s \in SheetNames |-> <<>>]
    /\ edits = 0
    /\ InitStore /\ InitRuns /\ InitRedis /\ InitApp

NextNormalize ==
    \/ NormalizeSheet
    \/ ValidateBatch
    \/ Sanitize

SpecNormalize == InitNormalize /\ [][NextNormalize]_vars

(***************************************************************************)
(* Properties of the normalization pipeline.                               *)
(***************************************************************************)
\* a value of the given Python type, or None
IsOptional(v, type) == v = Nil \/ v.k = type

\* C20: each sanitizer is total: for every primitive input (None, an empty or
\* whitespace-only string, a null sentinel in any case, a non-numeric string,
\* a number, a boolean, NaN, an infinity) it returns a value of its type or
\* None, and never raises.
C20_SanitizersTotal ==
    returned.op = "sanitize" =>
        /\ IsOptional(returned.coordinate, "float")
        /\ IsOptional(returned.string, "str")
        /\ IsOptional(returned.integer, "int")
        /\ IsOptional(returned.float, "float")
        /\ IsOptional(returned.device_type, "str")
        /\ IsOptional(returned.status, "str")

\* C20 witness: the sanitizers were handed an infinity and the numeric ones
\* returned None for it
C20_Witness ==
    /\ returned.op = "sanitize"
    /\ arg.value \in {PosInf, NegInf}
    /\ returned.integer = Nil /\ returned.float = Nil /\ returned.coordinate = Nil

\* validate_row reports zero errors for the row / reports some
IsValidRow(row) == ValidateRow(row) = <<>>
HasErrors(row)  == ValidateRow(row) # <<>>

\* an invalid device without the error list attached to it
WithoutErrors(device) == [f \in DOMAIN device \ {"validation_errors"} |-> device[f]]

\* C11: validate_batch partitions its input: valid_devices is the rows for
\* which validate_row reports zero errors, in input order; invalid_devices is
\* the other rows, in input order, each carrying its non-empty list of
\* validation errors; and total = valid + invalid = the number of rows.
C11_BatchPartition ==
    returned.op = "validate_batch" =>
        LET rows == arg.rows
            out  == returned.out
            bad  == SelectSeq(rows, HasErrors)
        IN  /\ out.valid_devices = SelectSeq(rows, IsValidRow)
            /\ Len(out.invalid_devices) = Len(bad)
            /\ \A i \in DOMAIN bad :
                  /\ WithoutErrors(out.invalid_devices[i]) = bad[i]
                  /\ "validation_errors" \in DOMAIN out.invalid_devices[i]
                  /\ out.invalid_devices[i].validation_errors # <<>>
                  /\ out.invalid_devices[i].validation_errors = ValidateRow(bad[i])
            /\ out.stats.valid = Len(out.valid_devices)
            /\ out.stats.invalid = Len(out.invalid_devices)
            /\ out.stats.total = Len(rows)
            /\ out.stats.total = out.stats.valid + out.stats.invalid

\* C11 witness: a batch of three rows was split into a valid and an invalid
\* part, a valid row following an invalid one
C11_Witness ==
    /\ returned.op = "validate_batch"
    /\ Len(arg.rows) = 3
    /\ HasErrors(arg.rows[1]) /\ IsValidRow(arg.rows[2])
    /\ returned.out.valid_devices # <<>>
    /\ returned.out.invalid_devices # <<>>

\* |n|
Abs(n) == IF n < 0 THEN 0 - n ELSE n

\* rate (in hundredths of a percent) is valid / total * 100 rounded to two
\* decimals: no other multiple of 0.01 is nearer to the quotient
IsRoundedRate(rate, valid_count, total) ==
    IF total > 0 THEN Abs(rate * total - valid_count * 10000) * 2 <= total
    ELSE rate = 0

AllDevices(out) == out.valid_devices \o out.invalid_devices

\* the validation errors attached to a device (none on a valid one)
ErrorsOf(device) ==
    IF "validation_errors" \in DOMAIN device THEN device.validation_errors ELSE <<>>

\* C13: validate_row reports a missing-required-field error for survey_id,
\* lat or lng exactly when the normalized value of that field is null; a
\* latitude or longitude of exactly 0 gets none.
C13_MissingIffNull ==
    returned.op = "normalize_survey_data" =>
        \A i \in DOMAIN AllDevices(returned.out) :
            LET device == AllDevices(returned.out)[i]
            IN  \A j \in DOMAIN REQUIRED_FIELDS :
                    ("Missing required field: " \o REQUIRED_FIELDS[j]) \in Range(ErrorsOf(device))
                        <=> device[REQUIRED_FIELDS[j]] = Nil

\* the sum of the counts of a histogram over the keys in S
RECURSIVE SumOver(_, _)
SumOver(counts, S) ==
    IF S = {} THEN 0
    ELSE LET t == CHOOSE t \in S : TRUE
         IN  counts[t] + SumOver(counts, S \ {t})

\* the number of error strings attached to the devices of a list
RECURSIVE ErrorStrings(_)
ErrorStrings(devices_) ==
    IF devices_ = <<>> THEN 0
    ELSE Len(ErrorsOf(Head(devices_))) + ErrorStrings(Tail(devices_))

\* the error types _categorize_error can return
ErrorTypes ==
    {"missing_coordinates", "missing_required_field", "coordinate_out_of_range",
     "invalid_device_type", "invalid_status", "numeric_range_violation",
     "other_validation_error"}

\* every error string is counted once, under one of the given buckets
BucketedOnce(out, buckets) ==
    /\ DOMAIN out.stats.error_breakdown \subseteq buckets
    /\ \A t \in DOMAIN out.stats.error_breakdown : out.stats.error_breakdown[t] >= 1
    /\ SumOver(out.stats.error_breakdown, DOMAIN out.stats.error_breakdown)
          = ErrorStrings(out.invalid_devices)

RowOf(device) == arg.df.rows[device.row_index - 1]

\* the statuses of the closed enumeration
ClosedStatuses == {"Working", "Not Working", "On Repair", "Failed"}

\* C15: every device in valid_devices returned by normalize_survey_data has a
\* status that is null or one of Working, Not Working, On Repair, Failed; a
\* row whose Status cell holds any other present value (whitespace-only text
\* and unmapped words included) is not in valid_devices.
C15_ValidStatusClosed ==
    (returned.op = "normalize_survey_data" /\ arg.style = "exact") =>
        \A i \in DOMAIN returned.out.valid_devices :
            LET device == returned.out.valid_devices[i]
                cell   == RowOf(device)[2]
            IN  /\ device.status = Nil \/ device.status.s \in ClosedStatuses
                /\ cell = NaN \/ lower(strip(str(cell))) \in DOMAIN status_map

\* C16: within the output of one normalization pass (the valid_devices of
\* normalize_survey_data for one sheet) no two devices share a survey_id.
C16_UniqueSurveyId ==
    returned.op = "normalize_survey_data" =>
        \A i, j \in DOMAIN returned.out.valid_devices :
            returned.out.valid_devices[i].survey_id = returned.out.valid_devices[j].survey_id
                => i = j

\* the result of the pipeline on the same rows under the headers of the
\* dictionary
UnderExactHeaders == NormalizeSurveyData(DataFrame("exact", arg.df.rows).df)

\* C17: header resolution is case-insensitive and whitespace-tolerant: a sheet
\* whose headers are dictionary headers in another casing, or with extra
\* spaces, yields the records it yields under the dictionary's own spelling.
C17_HeaderCaseAndSpaces ==
    (returned.op = "normalize_survey_data" /\ arg.style \in {"lower", "upper", "padded"}) =>
        /\ returned.out.valid_devices = UnderExactHeaders.valid_devices
        /\ returned.out.invalid_devices = UnderExactHeaders.invalid_devices

\* C18: a header that matches no dictionary entry exactly is resolved by
\* keyword (survey and code: survey_id, lat: lat, long: lng), so a sheet with
\* drifted GPS headers yields non-null lat and lng for rows that carry
\* coordinates.
C18_HeaderKeywords ==
    (returned.op = "normalize_survey_data" /\ arg.style = "keyword") =>
        \A i \in DOMAIN AllDevices(returned.out) :
            LET device == AllDevices(returned.out)[i]
            IN  /\ device.survey_id = sanitize_string(RowOf(device)[1])
                /\ device.lat = sanitize_coordinate(RowOf(device)[3])
                /\ device.lng = sanitize_coordinate(RowOf(device)[4])

\* the fields whose column the sheet has
PresentFields == Range(Rename(arg.df.columns)) \cap CANONICAL_SCHEMA

\* C19 as stated: every record produced by normalize_survey_data has exactly
\* the canonical key set, with null for every field whose column is absent
\* from the sheet, whichever headers the sheet has.
C19_ExactlyCanonicalKeys ==
    returned.op = "normalize_survey_data" =>
        \A i \in DOMAIN AllDevices(returned.out) :
            LET device == AllDevices(returned.out)[i]
            IN  /\ DOMAIN device = CANONICAL_SCHEMA
                /\ \A f \in CANONICAL_SCHEMA \ (PresentFields \cup {"row_index"}) :
                      device[f] = Nil

\* C19 amended: a valid device has exactly the canonical key set, an invalid
\* device the canonical key set and validation_errors; a field whose column
\* is absent from the sheet is null, whichever headers the sheet has.
C19_CanonicalKeysPlusErrors ==
    returned.op = "normalize_survey_data" =>
        /\ \A i \in DOMAIN returned.out.valid_devices :
              DOMAIN returned.out.valid_devices[i] = CANONICAL_SCHEMA
        /\ \A i \in DOMAIN returned.out.invalid_devices :
              DOMAIN returned.out.invalid_devices[i] = CANONICAL_SCHEMA \cup {"validation_errors"}
        /\ \A i \in DOMAIN AllDevices(returned.out) :
              \A f \in CANONICAL_SCHEMA \ (PresentFields \cup {"row_index"}) :
                  AllDevices(returned.out)[i][f] = Nil

\* C19 witness: a sheet without GPS columns gave an invalid device that has
\* every canonical key, lat and lng null
C19_Witness ==
    /\ returned.op = "normalize_survey_data"
    /\ arg.style = "no_gps"
    /\ returned.out.invalid_devices # <<>>
    /\ CANONICAL_SCHEMA \subseteq DOMAIN returned.out.invalid_devices[1]
    /\ returned.out.invalid_devices[1].lat = Nil
    /\ returned.out.invalid_devices[1].survey_id # Nil

Alone(device) ==
    NormalizeSurveyData([columns |-> arg.df.columns, rows |-> <<RowOf(device)>>])

DeviceTables == <<"borewells", "sumps", "overhead_tanks">>
TableType ==
    [borewells |-> "borewell", sumps |-> "sump", overhead_tanks |-> "overhead_tank"]

\* rows of a table
TableRows == {[zone |-> PyStr("Z1"), status |-> PyStr("Working")],
              [zone |-> PyStr("Z2"), status |-> PyStr("Failed")]}

\* query.range(from, to).execute(): the rows at the offsets from..to of the
\* selection, both ends included
range(rows, from, to) ==
    IF to < from THEN <<>>
    ELSE SubSeq(rows, from + 1, IF to + 1 < Len(rows) THEN to + 1 ELSE Len(rows))

\* the part of get_all_devices for one table: the zone filter when given,
\* the status filter on borewells only, the range, then the device_type (and
\* a null status outside borewells) written into every item
FetchTable(table, rows, q) ==
    LET Selected(item) ==
            /\ Truthy(q.zone) => item.zone = q.zone
            /\ (table = "borewells" /\ Truthy(q.status)) => item.status = q.status
        page == range(SelectSeq(rows, Selected), q.offset, q.offset + q.limit - 1)
    IN  [i \in DOMAIN page |->
            [zone        |-> page[i].zone,
             status      |-> IF table = "borewells" THEN page[i].status ELSE Nil,
             device_type |-> PyStr(TableType[table])]]

\* get_all_devices: the tables the device_type filter lets through, in order
get_all_devices(tables, q) ==
    LET Part(i) ==
            IF ~Truthy(q.device_type) \/ q.device_type = PyStr(TableType[DeviceTables[i]])
              THEN FetchTable(DeviceTables[i], tables[DeviceTables[i]], q)
              ELSE <<>>
        all_devices == Part(1) \o Part(2) \o Part(3)
    IN  [success |-> TRUE, count |-> Len(all_devices), data |-> all_devices]

\* the requests of GET /api/db/devices, each with the tables it finds
DeviceQueries ==
    {[k |-> "devices", tables |-> t, q |-> q] :
        t \in [{DeviceTables[i] : i \in DOMAIN DeviceTables} -> SeqsUpTo(TableRows, MaxTableRows)],
        q \in [device_type : {Nil, PyStr("borewell"), PyStr("sump"), PyStr("overhead_tank")},
               zone        : {Nil, PyStr("Z1")},
               status      : {Nil, PyStr("Working")},
               limit       : 1..MaxLimit,
               offset      : {0, 1}]}

\* GET /api/db/devices
GetAllDevices ==
    /\ arg.k = "devices" /\ returned.op = "none"
    /\ returned' = [op |-> "get_all_devices", out |-> get_all_devices(arg.tables, arg.q)]
    /\ UNCHANGED <<excel, edits, storeVars, syncVars, redisVars, appVars, arg>>

\* C24: GET /api/db/devices with limit = L returns at most L devices in
\* total, for every combination of the device_type, zone and status filters,
\* the case without device_type filter, where the three tables are combined,
\* included.
C24_AtMostLimit ==
    returned.op = "get_all_devices" =>
        /\ Len(returned.out.data) <= arg.q.limit
        /\ returned.out.count <= arg.q.limit

\* the roles a user may carry (auth.py: the seeded admin, signup's "user",
\* invite's default "viewer" or any role the admin names, such as "editor")
Roles == {"admin", "editor", "viewer", "user"}

\* a Python list of role names
PyList(items) == [k |-> "pylist", items |-> items]

\* the argument each guarded endpoint hands to require_role
Guards ==
    [update_device_notes |-> PyList(<<"admin", "editor">>),
     list_users          |-> PyList(<<"admin">>),
     invite_user         |-> PyList(<<"admin">>)]

\* role_checker of require_role(required_role): 403 unless the role of the
\* user equals required_role or is "admin"; a str never equals a list
role_checker(required_role, role) ==
    IF PyStr(role) # required_role /\ role # "admin" THEN 403 ELSE 200

GuardedCalls ==
    {[k |-> "guarded", endpoint |-> e, role |-> r] : e \in DOMAIN Guards, r \in Roles}

\* a request to a guarded endpoint passes the dependency or is refused
CheckRole ==
    /\ arg.k = "guarded" /\ returned.op = "none"
    /\ returned' = [op |-> "require_role",
                    status |-> role_checker(Guards[arg.endpoint], arg.role)]
    /\ UNCHANGED <<excel, edits, storeVars, syncVars, redisVars, appVars, arg>>

InitApi ==
    /\ arg \in DeviceQueries \cup GuardedCalls
    /\ returned = [op |-> "none"]
    /\ excel = [s \in SheetNames |-> <<>>]
    /\ edits = 0
    /\ InitStore /\ InitRuns /\ InitRedis /\ InitApp

NextApi ==
    \/ GetAllDevices
    \/ CheckRole

SpecApi == InitApi /\ [][NextApi]_vars

\* C30: an endpoint guarded by require_role(roles) admits a user exactly when
\* the role of the user is one of the listed roles.
C30_AdmitsListedRoles ==
    returned.op = "require_role" =>
        (returned.status = 200 <=> arg.role \in Range(Guards[arg.endpoint].items))

\* C23: device type is resolved by one precedence, the per-sheet override,
\* otherwise the sanitized Device Type cell, otherwise a default type: a row
\* with neither override nor cell value gets the default type, not null.
C23_DeviceTypeResolved ==
    returned.op = "normalize_survey_data" =>
        \A i \in DOMAIN AllDevices(returned.out) :
            AllDevices(returned.out)[i].device_type # Nil

(***************************************************************************)
(* Further properties of the sync engine (checked under SpecSync).         *)
(***************************************************************************)
\* the survey codes of the source of a run that the table did not hold when
\* the run started
NewCodes(h) == DeviceIds(h.src) \ ({NoId} \cup StoredIds(h.before))

\* C29: within one perform_sync run at most one insert is issued per
\* survey_code: a new code is inserted once and a later occurrence of it is
\* applied as an update, so the inserted count, and the number of inserts the
\* store receives, is the number of distinct new codes.
C29_OneInsertPerNewCode ==
    \A k \in DOMAIN hist :
        LET h == hist[k]
        IN  (h.kind = "perform" /\ h.solo /\ h.exc = "" /\ faults = 0) =>
                /\ h.stats.inserted = Cardinality(NewCodes(h))
                /\ h.issued - h.stats.updated = Cardinality(NewCodes(h))


(***************************************************************************)
(* Properties of the chunk loop of sync_excel_to_supabase (checked under   *)
(* SpecChunks).                                                            *)
(***************************************************************************)
RECURSIVE Flatten(_)
Flatten(chunks) ==
    IF chunks = <<>> THEN <<>> ELSE Head(chunks) \o Flatten(Tail(chunks))

CeilDiv(n, d) == (n + d - 1) \div d

\* the valid devices of the device sheet the run read
ValidDevices == normalize_survey_data(excel["Borewell"]).valid_devices

\* the last record of recs that carries the key id
LastWith(recs, id) ==
    recs[CHOOSE j \in DOMAIN recs :
           /\ recs[j].survey_id = id
           /\ \A m \in DOMAIN recs : recs[m].survey_id = id => m <= j]

\* the table tbl is the table before with the records recs stored by key:
\* one row per key, the row of a key of recs being its last record, every
\* other row being the row the table had
HoldsKeyed(tbl, before, recs) ==
    /\ StoredIds(tbl) = StoredIds(before) \cup DeviceIds(recs)
    /\ \A id \in StoredIds(tbl) : RowCount(tbl, id) = 1
    /\ \A j \in DOMAIN tbl :
         IF tbl[j].survey_id \in DeviceIds(recs)
           THEN tbl[j] = LastWith(recs, tbl[j].survey_id)
           ELSE \E m \in DOMAIN before : before[m] = tbl[j]

\* C25: a sync_excel_to_supabase run that returns status success has sent
\* every valid device exactly once, in source order, in consecutive upsert
\* requests of ChunkSize records (the last one possibly shorter, never
\* empty), the table holds them by survey_id, and stats.upserted is the
\* number of valid devices, whether that number is a multiple of ChunkSize
\* or not.
C25_ChunkedUpsert ==
    \A k \in DOMAIN hist :
        LET h == hist[k]
        IN  (h.kind = "service" /\ h.result.status = "success") =>
                /\ h.src = ValidDevices
                /\ Flatten(h.sent) = UpsertData(h.src)
                /\ Len(h.sent) = CeilDiv(Len(h.src), ChunkSize)
                /\ \A c \in DOMAIN h.sent :
                     /\ Len(h.sent[c]) \in 1..ChunkSize
                     /\ c < Len(h.sent) => Len(h.sent[c]) = ChunkSize
                /\ h.result.upserted = Len(ValidDevices)
                /\ h.result.processed = Len(ValidDevices)
                /\ HoldsKeyed(h.after, h.before, UpsertData(h.src))

\* a successful run of several requests whose last chunk is short
C25_Witness ==
    \E k \in DOMAIN hist :
        /\ hist[k].kind = "service" /\ hist[k].result.status = "success"
        /\ Len(hist[k].sent) >= 2
        /\ Len(hist[k].sent[Len(hist[k].sent)]) < ChunkSize
        /\ hist[k].result.upserted = Len(hist[k].src)

\* C28: when the upsert of a chunk raises, sync_excel_to_supabase returns
\* status error, the failing request is the last one it sent, and the table
\* holds the table before the run plus exactly the whole chunks sent before
\* the failing one, a prefix of the run's devices in source order; a run
\* that ends without success before any upsert leaves the table as it was.
C28_FailedChunkKeepsPrefix ==
    \A k \in DOMAIN hist :
        LET h         == hist[k]
            n         == Len(h.sent) - 1
            persisted == SubSeq(UpsertData(h.src), 1, n * ChunkSize)
        IN  /\ (h.kind = "service" /\ h.exc = "StoreError") =>
                  /\ h.result.status = "error"
                  /\ n >= 0 /\ n * ChunkSize < Len(h.src)
                  /\ Flatten(SubSeq(h.sent, 1, n)) = persisted
                  /\ h.sent[n + 1] # <<>>
                  /\ Flatten(h.sent) = SubSeq(UpsertData(h.src), 1, Len(Flatten(h.sent)))
                  /\ h.accepted = n * ChunkSize
                  /\ HoldsKeyed(h.after, h.before, persisted)
            /\ (h.kind = "service" /\ h.result.status # "success" /\ h.exc # "StoreError") =>
                  h.sent = <<>> /\ h.after = h.before

\* a run whose second upsert request raised after the first chunk was stored
C28_Witness ==
    \E k \in DOMAIN hist :
        /\ hist[k].kind = "service" /\ hist[k].exc = "StoreError"
        /\ hist[k].result.status = "error"
        /\ Len(hist[k].sent) = 2
        /\ hist[k].after # hist[k].before


(***************************************************************************)
(* Further properties of the validator and of the normalization (checked   *)
(* under SpecNormalize).                                                   *)
(***************************************************************************)
\* the count of a bucket of error_breakdown, 0 for an absent key
Bucket(out, error_type) ==
    IF error_type \in DOMAIN out.stats.error_breakdown
      THEN out.stats.error_breakdown[error_type]
      ELSE 0

\* the errors the enumeration checks of validate_row produce for a batch
DeviceTypeErrors(rows) ==
    UNION {{<<j, e>> : e \in Range(AllowedErrors(rows[j].device_type, "device type", DeviceType))} :
             j \in DOMAIN rows}
StatusErrors(rows) ==
    UNION {{<<j, e>> : e \in Range(AllowedErrors(rows[j].status, "status", DeviceStatus))} :
             j \in DOMAIN rows}

\* C27: every error of the device_type enumeration check of a batch is
\* counted under invalid_device_type and every error of the status
\* enumeration check under invalid_status, whatever text the offending value
\* holds.
C27_EnumErrorsByCheck ==
    returned.op = "validate_batch" =>
        /\ \A p \in DeviceTypeErrors(arg.rows) : categorize_error(p[2]) = "invalid_device_type"
        /\ \A p \in StatusErrors(arg.rows) : categorize_error(p[2]) = "invalid_status"
        /\ Bucket(returned.out, "invalid_device_type") >= Cardinality(DeviceTypeErrors(arg.rows))
        /\ Bucket(returned.out, "invalid_status") >= Cardinality(StatusErrors(arg.rows))


\* the sheet with the cells of its last column replaced by cell
ReplaceLast(df, cell) ==
    [df EXCEPT !.rows = [i \in DOMAIN df.rows |->
                           [df.rows[i] EXCEPT ![Len(df.columns)] = cell]]]

\* C26: the output of normalize_survey_data depends only on the cells under
\* headers of the header dictionary: two sheets that differ only in the
\* content of a column whose header is not in the dictionary, whatever the
\* header's text, give the same valid_devices, invalid_devices and stats.
C26_UnresolvedColumnIgnored ==
    (/\ returned.op = "normalize_survey_data"
     /\ arg.style = "extra"
     /\ arg.df.columns[Len(arg.df.columns)] \notin DOMAIN EXCEL_HEADER_MAP) =>
        \A cell \in ExtraCells :
            LET other == NormalizeSurveyData(ReplaceLast(arg.df, cell))
            IN  /\ other.valid_devices = returned.out.valid_devices
                /\ other.invalid_devices = returned.out.invalid_devices
                /\ other.stats = returned.out.stats

=============================================================================
